---- MODULE Spec2Model ----
(***************************************************************************)
(* Exercise tracker (src/index.js): four Express route handlers over two   *)
(* Mongoose collections, User and Exercise.  Every handler is an async     *)
(* function: it runs up to its next `await`, the store call completes      *)
(* (resolves or rejects) at some later moment, and the handler resumes.    *)
(* Handlers of different requests interleave at their awaits.              *)
(*                                                                         *)
(* Time is counted in hours since 2019-12-31T00:00Z, so the date text      *)
(* "2020-01-01" parses to 24 and "2020-01-02" to 48.  Dates are rendered   *)
(* by toDateString with the server running in UTC.                         *)
(***************************************************************************)
EXTENDS Integers, Sequences, FiniteSets, Bags, TLC

VARIABLES users, exercises, inflight, out, nreq

vars == <<users, exercises, inflight, out, nreq>>

(* ---- bounds of the model ---- *)
MaxRequests == 4
MaxInflight == 2
MaxId == 2

(* ---- JavaScript values of the request's text parameters ---- *)
Undefined == [t |-> "undefined", s |-> "", n |-> 0]
Str(s) == [t |-> "string", s |-> s, n |-> 0]
Num(n) == [t |-> "number", s |-> "", n |-> n]
NaN == [t |-> "NaN", s |-> "", n |-> 0]

Null == << >>
Some(x) == << x >>

Usernames == {"alice", "bob"}
Ids == 1 .. MaxId
DateTexts == {"2020-01-01", "2020-01-02"}
DateParams == {Undefined} \cup {Str(s) : s \in DateTexts}
LimitTexts == {"0", "1", "2", "abc"}
LimitParams == {Undefined} \cup {Str(s) : s \in LimitTexts}
Descriptions == {"run"}
Durations == {"30"}
Clock == {36}

(* a value is truthy unless it is undefined or the empty string *)
Truthy(v) == v.t = "string" /\ v.s # ""

(* new Date(text) for the ISO date texts: midnight UTC of that day *)
NewDate(s) == IF s = "2020-01-01" THEN 24 ELSE 48

(* Date.prototype.toDateString: the calendar day the instant falls on *)
ToDateString(d) == IF d \div 24 = 1 THEN "Wed Jan 01 2020" ELSE "Thu Jan 02 2020"

(* Number cast of a decimal text (schema type Number, unary plus) *)
DigitsToNumber(s) ==
  CASE s = "" -> Num(0)
    [] s = "0" -> Num(0)
    [] s = "1" -> Num(1)
    [] s = "2" -> Num(2)
    [] s = "30" -> Num(30)
    [] OTHER -> NaN

UnaryPlus(v) == IF v.t = "string" THEN DigitsToNumber(v.s) ELSE NaN

(* a ?? b: b only when a is null or undefined *)
NullishCoalesce(a, b) == IF a.t \in {"undefined", "null"} THEN b ELSE a

DefaultLimit == 500

(* variant: the request's limit is ignored *)
LimitArg_Ignored(limit) == Num(DefaultLimit)

(* the argument handed to Query.limit *)
LimitArg(limit) == NullishCoalesce(UnaryPlus(limit), Num(DefaultLimit))

(* ---- requests and responses ---- *)
Req(op, pc) ==
  [op |-> op, pc |-> pc, id |-> 0, username |-> "", description |-> "",
   duration |-> "", date |-> Undefined, from |-> Undefined, to |-> Undefined,
   limit |-> Undefined, user |-> Null, exerciseObj |-> Null]

NoOut == [op |-> "none"]

(* rsp.json(body) and rsp.send(text): the status is Express's default *)
Json(body) == [status |-> 200, kind |-> "json", text |-> "", body |-> body]
Send(text) == [status |-> 200, kind |-> "text", text |-> text, body |-> << >>]

Responded(r, resp) == [op |-> r.op, req |-> r, sent |-> 1, resp |-> resp]
Unanswered(r) == [op |-> r.op, req |-> r, sent |-> 0, resp |-> Send("")]

Arrive(r) ==
  /\ nreq < MaxRequests
  /\ BagCardinality(inflight) < MaxInflight
  /\ inflight' = inflight (+) SetToBag({r})
  /\ nreq' = nreq + 1
  /\ out' = NoOut
  /\ UNCHANGED <<users, exercises>>

Finish(r, o) ==
  /\ inflight' = inflight (-) SetToBag({r})
  /\ out' = o
  /\ UNCHANGED nreq

Continue(r, r2) ==
  /\ inflight' = (inflight (-) SetToBag({r})) (+) SetToBag({r2})
  /\ out' = NoOut
  /\ UNCHANGED nreq

Waiting(op, pc) == {r \in BagToSet(inflight) : r.op = op /\ r.pc = pc}

(* ---- the Record Store ---- *)
UserIds == {users[i]._id : i \in 1 .. Len(users)}

FindById(id) ==
  IF id \in UserIds
    THEN Some(CHOOSE u \in {users[i] : i \in 1 .. Len(users)} : u._id = id)
    ELSE Null

Init ==
  /\ users = << >>
  /\ exercises = << >>
  /\ inflight = EmptyBag
  /\ out = NoOut
  /\ nreq = 0

(* ---- POST /api/users ---- *)
PostUsers ==
  \E username \in Usernames :
    Arrive([Req("create", "save") EXCEPT !.username = username])

PostUsersSave ==
  \E r \in Waiting("create", "save") :
    LET user == [_id |-> Len(users) + 1, username |-> r.username, __v |-> 0] IN
      /\ users' = Append(users, user)
      /\ Finish(r, Responded(r, Json(user)))
      /\ UNCHANGED exercises

PostUsersSaveFails ==
  \E r \in Waiting("create", "save") :
    /\ Finish(r, Unanswered(r))
    /\ UNCHANGED <<users, exercises>>

(* ---- GET /api/users ---- *)
(* variant: the projection is left out and whole documents are returned *)
SelectIdUsername_WholeDocument(u) == u

SelectIdUsername(u) == [_id |-> u._id, username |-> u.username]

GetUsers == Arrive(Req("list", "find"))

GetUsersFind ==
  \E r \in Waiting("list", "find") :
    LET found == [i \in 1 .. Len(users) |-> SelectIdUsername(users[i])] IN
      /\ Finish(r, Responded(r, Json(found)))
      /\ UNCHANGED <<users, exercises>>

GetUsersFindFails ==
  \E r \in Waiting("list", "find") :
    /\ Finish(r, Unanswered(r))
    /\ UNCHANGED <<users, exercises>>

(* ---- POST /api/users/:_id/exercises ---- *)
PostExercises ==
  \E id \in Ids, description \in Descriptions, duration \in Durations,
     date \in DateParams :
    Arrive([Req("append", "findById") EXCEPT !.id = id,
              !.description = description, !.duration = duration, !.date = date])

(* if (!user) *)
NoUser(user) == user = Null

(* new Exercise({...}): the schema casts duration to Number, and the date is
   the request's date when it is truthy, the current instant otherwise *)
NewExercise(user, description, duration, date, now) ==
  [userId |-> user._id, description |-> description,
   duration |-> DigitsToNumber(duration).n,
   date |-> IF Truthy(date) THEN NewDate(date.s) ELSE now]

(* variant: the exercise is stored before the user is checked *)
PostExercisesFindById_SaveBeforeCheck ==
  \E r \in Waiting("append", "findById"), now \in Clock :
    LET user == FindById(r.id)
        owner == [_id |-> r.id, username |-> "", __v |-> 0] IN
      IF NoUser(user)
        THEN /\ exercises' = Append(exercises,
                    NewExercise(owner, r.description, r.duration, r.date, now))
             /\ Finish(r, Responded(r, Send("could not find user")))
             /\ UNCHANGED users
        ELSE /\ Continue(r, [r EXCEPT !.pc = "save", !.user = user,
                    !.exerciseObj = Some(NewExercise(user[1], r.description,
                                                     r.duration, r.date, now))])
             /\ UNCHANGED <<users, exercises>>

(* variant: the user is not looked up, the id of the URL becomes the owner *)
PostExercisesFindById_NoLookup ==
  \E r \in Waiting("append", "findById"), now \in Clock :
    LET owner == [_id |-> r.id, username |-> "", __v |-> 0] IN
      /\ Continue(r, [r EXCEPT !.pc = "save", !.user = Some(owner),
             !.exerciseObj = Some(NewExercise(owner, r.description,
                                              r.duration, r.date, now))])
      /\ UNCHANGED <<users, exercises>>

PostExercisesFindById ==
  \E r \in Waiting("append", "findById"), now \in Clock :
    LET user == FindById(r.id) IN
      /\ IF NoUser(user)
           THEN Finish(r, Responded(r, Send("could not find user")))
           ELSE Continue(r, [r EXCEPT !.pc = "save", !.user = user,
                  !.exerciseObj = Some(NewExercise(user[1], r.description,
                                                   r.duration, r.date, now))])
      /\ UNCHANGED <<users, exercises>>

PostExercisesFindByIdFails ==
  \E r \in Waiting("append", "findById") :
    /\ Finish(r, Responded(r, Send("there was an error")))
    /\ UNCHANGED <<users, exercises>>

(* variant: an exercise equal to a stored one is not stored again *)
PostExercisesSave_Dedup ==
  \E r \in Waiting("append", "save") :
    LET user == r.user[1]
        exercise == r.exerciseObj[1] IN
      /\ exercises' =
           IF \E i \in 1 .. Len(exercises) : exercises[i] = exercise
             THEN exercises
             ELSE Append(exercises, exercise)
      /\ Finish(r, Responded(r, Json(
           [_id |-> user._id, username |-> user.username,
            description |-> exercise.description,
            duration |-> exercise.duration,
            date |-> ToDateString(exercise.date)])))
      /\ UNCHANGED users

PostExercisesSave ==
  \E r \in Waiting("append", "save") :
    LET user == r.user[1]
        exercise == r.exerciseObj[1] IN
      /\ exercises' = Append(exercises, exercise)
      /\ Finish(r, Responded(r, Json(
           [_id |-> user._id, username |-> user.username,
            description |-> exercise.description,
            duration |-> exercise.duration,
            date |-> ToDateString(exercise.date)])))
      /\ UNCHANGED users

PostExercisesSaveFails ==
  \E r \in Waiting("append", "save") :
    /\ Finish(r, Responded(r, Send("there was an error")))
    /\ UNCHANGED <<users, exercises>>

(* ---- GET /api/users/:_id/logs ---- *)
(* req.query is fixed when the request arrives and first used after the user
   lookup: from, to and limit are drawn where the handler first uses them *)
GetLogs ==
  \E id \in Ids :
    Arrive([Req("logs", "findById") EXCEPT !.id = id])

GetLogsFindById ==
  \E r \in Waiting("logs", "findById") :
    LET user == FindById(r.id) IN
      /\ IF NoUser(user)
           THEN Finish(r, Responded(r, Send("could not find user")))
           ELSE Continue(r, [r EXCEPT !.pc = "find", !.user = user])
      /\ UNCHANGED <<users, exercises>>

GetLogsFindByIdFails ==
  \E r \in Waiting("logs", "findById") :
    /\ Finish(r, Unanswered(r))
    /\ UNCHANGED <<users, exercises>>

(* dateObj: $gte when from is truthy, $lte when to is truthy *)
DateObj(from, to) ==
  [gte |-> IF Truthy(from) THEN Some(NewDate(from.s)) ELSE Null,
   lte |-> IF Truthy(to) THEN Some(NewDate(to.s)) ELSE Null]

(* filter: userId always, date only when from or to is truthy *)
Filter(id, from, to) ==
  [userId |-> id,
   date |-> IF Truthy(from) \/ Truthy(to) THEN Some(DateObj(from, to)) ELSE Null]

(* variant: the lower bound is exclusive ($gt for $gte) *)
Matches_ExclusiveFrom(e, filter) ==
  /\ e.userId = filter.userId
  /\ \/ filter.date = Null
     \/ LET d == filter.date[1] IN
          /\ d.gte = Null \/ e.date > d.gte[1]
          /\ d.lte = Null \/ e.date <= d.lte[1]

Matches(e, filter) ==
  /\ e.userId = filter.userId
  /\ \/ filter.date = Null
     \/ LET d == filter.date[1] IN
          /\ d.gte = Null \/ e.date >= d.gte[1]
          /\ d.lte = Null \/ e.date <= d.lte[1]

(* Query.limit: 0 and NaN mean no limit, a positive n the first n documents *)
Limit(docs, arg) ==
  IF arg.t = "number" /\ arg.n > 0 /\ arg.n < Len(docs)
    THEN SubSeq(docs, 1, arg.n)
    ELSE docs

(* Exercise.find(filter).limit(+limit ?? 500), in insertion order *)
FindExercises(filter, limit) ==
  Limit(SelectSeq(exercises, LAMBDA e : Matches(e, filter)), LimitArg(limit))

LogEntry(i) ==
  [description |-> i.description, duration |-> i.duration,
   date |-> ToDateString(i.date)]

(* variant: count is the size of the whole collection *)
LogsBody_CountAll(user, found) ==
  [username |-> user.username, count |-> Len(exercises), _id |-> user._id,
   log |-> [k \in 1 .. Len(found) |-> LogEntry(found[k])]]

(* the response body: count is the number of documents the query returned *)
LogsBody(user, found) ==
  [username |-> user.username, count |-> Len(found), _id |-> user._id,
   log |-> [k \in 1 .. Len(found) |-> LogEntry(found[k])]]

GetLogsFind ==
  \E w \in Waiting("logs", "find"), from \in DateParams, to \in DateParams,
     limit \in LimitParams :
    LET r == [w EXCEPT !.from = from, !.to = to, !.limit = limit]
        found == FindExercises(Filter(r.id, r.from, r.to), r.limit) IN
      /\ Finish(w, Responded(r, Json(LogsBody(r.user[1], found))))
      /\ UNCHANGED <<users, exercises>>

GetLogsFindFails ==
  \E r \in Waiting("logs", "find") :
    /\ Finish(r, Unanswered(r))
    /\ UNCHANGED <<users, exercises>>

Next ==
  \/ PostUsers
  \/ PostUsersSave
  \/ PostUsersSaveFails
  \/ GetUsers
  \/ GetUsersFind
  \/ GetUsersFindFails
  \/ PostExercises
  \/ PostExercisesFindById
  \/ PostExercisesFindByIdFails
  \/ PostExercisesSave
  \/ PostExercisesSaveFails
  \/ GetLogs
  \/ GetLogsFindById
  \/ GetLogsFindByIdFails
  \/ GetLogsFind
  \/ GetLogsFindFails

Spec == Init /\ [][Next]_vars

(* ---- a store that already holds DefaultLimit exercises of one user ---- *)
InitCap ==
  /\ users = << [_id |-> 1, username |-> "alice", __v |-> 0] >>
  /\ exercises = [i \in 1 .. DefaultLimit |->
                    [userId |-> 1, description |-> "run", duration |-> 30,
                     date |-> 24]]
  /\ inflight = EmptyBag
  /\ out = NoOut
  /\ nreq = 0

(* the two exercise endpoints against that store *)
NextCap ==
  \/ PostExercises
  \/ PostExercisesFindById
  \/ PostExercisesFindByIdFails
  \/ PostExercisesSave
  \/ PostExercisesSaveFails
  \/ GetLogs
  \/ GetLogsFindById
  \/ GetLogsFindByIdFails
  \/ GetLogsFind
  \/ GetLogsFindFails

SpecCap == InitCap /\ [][NextCap]_vars

(* ---- vocabulary of the properties ---- *)
NotFound == Send("could not find user")
Failure == Send("there was an error")

Answered(op) == out.op = op /\ out.sent = 1
AnsweredJson(op) == Answered(op) /\ out.resp.kind = "json"

(* the exercises of user id whose date lies within the present bounds,
   as indices into the collection *)
MatchingIdx(id, from, to) ==
  {i \in 1 .. Len(exercises) :
     /\ exercises[i].userId = id
     /\ Truthy(from) => NewDate(from.s) <= exercises[i].date
     /\ Truthy(to) => exercises[i].date <= NewDate(to.s)}

(* the k-th smallest element of a set of indices *)
Kth(S, k) == CHOOSE i \in S : Cardinality({j \in S : j <= i}) = k

Min(a, b) == IF a <= b THEN a ELSE b

PositiveLimit(limit) == UnaryPlus(limit).t = "number" /\ UnaryPlus(limit).n > 0

(* log holds the first n matching exercises, in insertion order *)
LogIsFirst(log, S, n) ==
  /\ Len(log) = n
  /\ \A k \in 1 .. n :
       LET e == exercises[Kth(S, k)] IN
         log[k] = [description |-> e.description, duration |-> e.duration,
                   date |-> ToDateString(e.date)]

IsPrefix(a, b) == Len(a) <= Len(b) /\ SubSeq(b, 1, Len(a)) = a

(* ---- C1 ---- *)
(* C1, as stated: whenever append-exercise is answered for an id that matches
   no stored User, the response is the NotFound signal and the step leaves
   the Exercise collection as it was. *)
C1_NotFoundAlways ==
  [][(out'.op = "append" /\ out'.req.id \notin UserIds)
       => (out'.sent = 1 /\ out'.resp = NotFound /\ exercises' = exercises)]_vars

(* C1, amended: whenever append-exercise ends for an id that matches no
   stored User, exactly one response is sent, it is the NotFound signal or
   (when the user lookup itself failed) the generic failure text, never a
   structured result, and the step leaves both collections as they were. *)
C1_NotFoundOrFailure ==
  [][(out'.op = "append" /\ out'.req.id \notin UserIds)
       => /\ out'.sent = 1
          /\ out'.resp \in {NotFound, Failure}
          /\ out'.req.pc = "findById"
          /\ exercises' = exercises
          /\ users' = users]_vars

C1_Witness ==
  /\ Answered("append")
  /\ out.req.id \notin UserIds
  /\ out.resp = NotFound
  /\ Len(exercises) >= 1

(* ---- C2 ---- *)
(* C2: a log returned by get-logs whose cap is not reached (a positive limit n
   with at most n matches, or at most DefaultLimit matches otherwise) holds
   exactly the stored exercises of the requested user whose date lies within
   the present bounds, both inclusive, in insertion order; with neither bound
   present these are all exercises of that user and none of another user. *)
C2_LogIsExactlyTheMatches ==
  AnsweredJson("logs") =>
    LET q == out.req
        S == MatchingIdx(q.id, q.from, q.to)
        m == Cardinality(S)
        cap == IF PositiveLimit(q.limit) THEN UnaryPlus(q.limit).n
               ELSE DefaultLimit IN
      m <= cap =>
        /\ LogIsFirst(out.resp.body.log, S, m)
        /\ (~Truthy(q.from) /\ ~Truthy(q.to)) =>
             m = Cardinality({i \in 1 .. Len(exercises) :
                                exercises[i].userId = q.id})

(* an exercise appended with date D, another of the same user on a later day,
   and a query from = D, to = D that returns exactly the first *)
C2_Witness ==
  /\ AnsweredJson("logs")
  /\ out.req.from = Str("2020-01-01")
  /\ out.req.to = Str("2020-01-01")
  /\ out.req.limit = Undefined
  /\ Len(exercises) = 2
  /\ exercises[1].userId = out.req.id /\ exercises[1].date = 24
  /\ exercises[2].userId = out.req.id /\ exercises[2].date > 24
  /\ out.resp.body.count = 1

(* ---- C3 ---- *)
(* C3: a log returned by get-logs called without a limit, or with a limit that
   coerces to zero or to NaN, never holds more than DefaultLimit entries. *)
C3_DefaultCap ==
  (AnsweredJson("logs") /\ ~PositiveLimit(out.req.limit))
    => Len(out.resp.body.log) <= DefaultLimit

(* ---- C4 ---- *)
(* C4: a log returned by get-logs called with a positive integer limit n, when
   m stored exercises match the filter, is the first min(n, m) matching
   exercises in insertion order. *)
C4_FirstMinOfLimitAndMatches ==
  (AnsweredJson("logs") /\ PositiveLimit(out.req.limit)) =>
    LET q == out.req
        S == MatchingIdx(q.id, q.from, q.to) IN
      LogIsFirst(out.resp.body.log, S,
                 Min(UnaryPlus(q.limit).n, Cardinality(S)))

(* limit = 1 with two matching exercises of different days *)
C4_Witness ==
  /\ AnsweredJson("logs")
  /\ out.req.limit = Str("1")
  /\ Cardinality(MatchingIdx(out.req.id, out.req.from, out.req.to)) = 2
  /\ exercises[1].date # exercises[2].date
  /\ Len(out.resp.body.log) = 1

(* ---- C5 ---- *)
(* C5: every get-logs response for an existing user has count equal to the
   length of its log; for a user without exercises it has count 0 and an
   empty log; and the response is the NotFound signal exactly when the id
   matches no stored User. *)
C5_CountIsLogLength ==
  Answered("logs") =>
    /\ out.resp = NotFound <=> out.req.id \notin UserIds
    /\ out.req.id \in UserIds =>
         /\ out.resp.kind = "json"
         /\ out.resp.body.count = Len(out.resp.body.log)
         /\ (\A i \in 1 .. Len(exercises) : exercises[i].userId # out.req.id)
              => out.resp.body.count = 0 /\ out.resp.body.log = << >>

(* a user without exercises, while another user has some *)
C5_Witness ==
  /\ AnsweredJson("logs")
  /\ out.req.limit = Str("1")
  /\ Len(exercises) >= 1
  /\ \A i \in 1 .. Len(exercises) : exercises[i].userId # out.req.id
  /\ out.resp.body.count = 0

(* ---- C6 ---- *)
(* C6: list-users answers with a sequence (never a text sentinel) holding
   exactly one {_id, username} entry for each stored User and nothing else,
   empty when no User is stored; ids are non-empty and pairwise distinct; and
   the User stored by a create-user has the username given in its request. *)
C6_ListIsTheUsers ==
  /\ \A i, j \in 1 .. Len(users) :
       users[i]._id > 0 /\ (i # j => users[i]._id # users[j]._id)
  /\ Answered("create") =>
       /\ Len(users) >= 1
       /\ users[Len(users)].username = out.req.username
       /\ users[Len(users)]._id = out.resp.body._id
  /\ Answered("list") =>
       /\ out.resp.kind = "json"
       /\ Len(out.resp.body) = Len(users)
       /\ \A k \in 1 .. Len(out.resp.body) :
            DOMAIN out.resp.body[k] = {"_id", "username"}
       /\ \A i \in 1 .. Len(users) :
            Cardinality({k \in 1 .. Len(out.resp.body) :
                           /\ out.resp.body[k]._id = users[i]._id
                           /\ out.resp.body[k].username = users[i].username}) = 1

C6_Witness ==
  /\ Answered("list")
  /\ Len(out.resp.body) = 2
  /\ out.resp.body[1].username = "alice"
  /\ out.resp.body[2].username = "bob"

(* ---- C7 ---- *)
(* C7: every stored Exercise, and every Exercise an append is about to store,
   carries the id of a stored User; Users are never removed, so that User was
   stored when the Exercise was created. *)
C7_ExerciseOwnerExists ==
  /\ \A i \in 1 .. Len(exercises) : exercises[i].userId \in UserIds
  /\ \A r \in Waiting("append", "save") : r.exerciseObj[1].userId \in UserIds

(* an exercise is stored while a create-user and another append are under way *)
C7_Witness ==
  /\ Len(exercises) >= 1
  /\ Waiting("create", "save") # {}
  /\ Waiting("append", "save") # {}

(* ---- C8 ---- *)
(* C8: every handler that has run to its end has sent exactly one response. *)
C8_EveryRequestAnswered == out.op # "none" => out.sent = 1

(* ---- C9 ---- *)
(* C9: the NotFound signal and the generic failure are sent with a non-success
   status (the failure with a server-error status), and a success status only
   with a structured result. *)
C9_FailureStatus ==
  (out.op # "none" /\ out.sent = 1) =>
    /\ out.resp = [NotFound EXCEPT !.status = out.resp.status]
         => out.resp.status >= 400
    /\ out.resp = [Failure EXCEPT !.status = out.resp.status]
         => out.resp.status >= 500
    /\ out.resp.status \in 200 .. 299 => out.resp.kind = "json"

(* ---- C10 ---- *)
(* C10: no step changes or removes a stored record; list-users and get-logs
   leave both collections as they were; a create-user that answers adds
   exactly one User and leaves the Exercises; an append-exercise that answers
   with its structured result adds exactly one Exercise and leaves the Users;
   every other step leaves both collections as they were. *)
C10_AppendOnly ==
  [][/\ IsPrefix(users, users')
     /\ IsPrefix(exercises, exercises')
     /\ IF out'.op = "create" /\ out'.sent = 1
          THEN Len(users') = Len(users) + 1 /\ exercises' = exercises
          ELSE IF out'.op = "append" /\ out'.resp.kind = "json"
            THEN Len(exercises') = Len(exercises) + 1 /\ users' = users
            ELSE users' = users /\ exercises' = exercises]_vars

(* two concurrent appends of the same exercise have both been stored *)
C10_Witness ==
  /\ AnsweredJson("append")
  /\ Len(exercises) = 2
  /\ exercises[1] = exercises[2]
====
